---- MODULE Spec2Model ----
(***************************************************************************)
(* Scrape-and-archive sync pipeline of taylorRanch_backend:                *)
(*   src/src/reveal_sync.py       RevealSync      (normal / forced sync)   *)
(*   src/src/reveal_sync_jump.py  RevealSyncJump  (jump-then-sync)         *)
(*   src/TaylorRanch/src/reveal_sync.py           (earlier variant)        *)
(*                                                                         *)
(* Texts read from the page are sequences of one-character strings.  An    *)
(* optional value (a dict key that may be missing, a nullable column, a    *)
(* call that may return None) is a sequence of length 0 or 1.              *)
(***************************************************************************)
EXTENDS Integers, Sequences, FiniteSets, TLC

(***************************************************************************)
(* Bounds of the model.                                                    *)
(***************************************************************************)
MaxRecords == 3
MaxAllRecords == 2
MaxRuns == 2
MaxFaults == 1
MaxJump == 1
MaxLimit == 1
MaxGapRecords == 4
MaxGapRuns == 3
MaxLiveRecords == 2
MaxLiveRuns == 1
MaxRaceRecords == 2
MaxRaceCommits == 1
MaxImages == 2
MaxLiveImages == 21

(***************************************************************************)
(* Program constants.                                                      *)
(***************************************************************************)
MAX_UPLOAD_RETRIES == 3
MAX_IMAGE_SIZE == 10485760
MIN_IMAGE_SIZE == 1000
target_count == 2
max_attempts == 10
jump_max_attempts == 200

None == <<>>
Some(x) == <<x>>
IsNone(o) == o = <<>>
IsSome(o) == o # <<>>
Get(o) == o[1]

(***************************************************************************)
(* Text helpers: str.split(sep), str.split(), str.strip(), float(str).     *)
(***************************************************************************)
Digits == {"0", "1", "2", "3", "4", "5", "6", "7", "8", "9"}

IsPrefixAt(s, d, i) ==
    /\ i + Len(d) - 1 <= Len(s)
    /\ \A k \in 1..Len(d) : s[i + k - 1] = d[k]

RECURSIVE SplitFrom(_, _, _, _)
SplitFrom(s, d, i, cur) ==
    IF i > Len(s) THEN <<cur>>
    ELSE IF IsPrefixAt(s, d, i)
         THEN <<cur>> \o SplitFrom(s, d, i + Len(d), <<>>)
         ELSE SplitFrom(s, d, i + 1, Append(cur, s[i]))

\* value.split(sep)
SplitOn(s, d) == SplitFrom(s, d, 1, <<>>)

RECURSIVE SplitWSFrom(_, _, _)
SplitWSFrom(s, i, cur) ==
    IF i > Len(s) THEN (IF cur = <<>> THEN <<>> ELSE <<cur>>)
    ELSE IF s[i] = " " \/ s[i] = "\n"
         THEN (IF cur = <<>> THEN <<>> ELSE <<cur>>) \o SplitWSFrom(s, i + 1, <<>>)
         ELSE SplitWSFrom(s, i + 1, Append(cur, s[i]))

\* value.split()
SplitWS(s) == SplitWSFrom(s, 1, <<>>)

RECURSIVE JoinSp(_)
\* ' '.join(parts)
JoinSp(parts) ==
    IF parts = <<>> THEN <<>>
    ELSE IF Len(parts) = 1 THEN parts[1]
    ELSE parts[1] \o <<" ">> \o JoinSp(Tail(parts))

RECURSIVE LStrip(_)
LStrip(s) == IF s # <<>> /\ (s[1] = " " \/ s[1] = "\n") THEN LStrip(Tail(s)) ELSE s

RECURSIVE RStrip(_)
RStrip(s) ==
    IF s # <<>> /\ (s[Len(s)] = " " \/ s[Len(s)] = "\n")
    THEN RStrip(SubSeq(s, 1, Len(s) - 1)) ELSE s

\* str.strip()
Strip(s) == LStrip(RStrip(s))

\* float(s) succeeds: optional sign, digits with at most one point, at least
\* one digit, surrounding blanks allowed.
IsFloat(s) ==
    LET t == Strip(s)
        u == IF t # <<>> /\ (t[1] = "-" \/ t[1] = "+") THEN Tail(t) ELSE t
    IN  /\ \E k \in 1..Len(u) : u[k] \in Digits
        /\ \A k \in 1..Len(u) : u[k] \in Digits \cup {"."}
        /\ Cardinality({k \in 1..Len(u) : u[k] = "."}) <= 1

\* value.replace('\n', ' ')
ReplaceNl(s) == [k \in 1..Len(s) |-> IF s[k] = "\n" THEN " " ELSE s[k]]

(***************************************************************************)
(* The detail view of a record as the page renders it.                     *)
(*   sidebar    : the PhotoSideBar container is present                    *)
(*   timestamp  : optional text of h6.text-s1                              *)
(*   locations  : texts of the location paragraphs                         *)
(*   grid       : optional sequence of weather containers, each with an    *)
(*                optional label (the set of keywords its upper-cased text *)
(*                contains) and an optional value text                     *)
(***************************************************************************)
TempDelimiter == <<"Â", "°">>
LegacyTempDelimiter == <<"°">>

EmptyMetadata ==
    [timestamp |-> None, location |-> None, temperature |-> None,
     wind |-> None, pressure |-> None, sun_status |-> None, moon_phase |-> None]

\* One weather container (body of the for loop): the metadata after it, and
\* whether the body raised.
ParseContainer(c, md, delim) ==
    IF IsNone(c.label) THEN [md |-> md, raised |-> FALSE]
    ELSE IF IsNone(c.value) THEN [md |-> md, raised |-> FALSE]
    ELSE LET label == Get(c.label)
             value == Get(c.value)
         IN  IF "TEMP" \in label THEN
                 LET parts == SplitOn(value, delim)
                 IN  IF IsFloat(parts[1]) /\ Len(parts) >= 2
                     THEN [md |-> [md EXCEPT !.temperature =
                                     Some([value |-> Strip(parts[1]),
                                           unit |-> Strip(parts[2])])],
                           raised |-> FALSE]
                     ELSE [md |-> md, raised |-> TRUE]
             ELSE IF "WIND" \in label THEN
                 LET parts == SplitWS(value)
                 IN  IF Len(parts) >= 2 /\ IsFloat(parts[2])
                     THEN [md |-> [md EXCEPT !.wind =
                                     Some([direction |-> parts[1],
                                           speed |-> parts[2],
                                           unit |-> JoinSp(SubSeq(parts, 3, Len(parts)))])],
                           raised |-> FALSE]
                     ELSE [md |-> md, raised |-> TRUE]
             ELSE IF "PRESSURE" \in label THEN
                 LET parts == SplitWS(value)
                 IN  IF Len(parts) >= 2 /\ IsFloat(parts[1])
                     THEN [md |-> [md EXCEPT !.pressure =
                                     Some([value |-> parts[1], unit |-> parts[2]])],
                           raised |-> FALSE]
                     ELSE [md |-> md, raised |-> TRUE]
             ELSE IF "SUN" \in label THEN
                 [md |-> [md EXCEPT !.sun_status = Some(value)], raised |-> FALSE]
             ELSE IF "MOON" \in label THEN
                 [md |-> [md EXCEPT !.moon_phase = Some(ReplaceNl(value))],
                  raised |-> FALSE]
             ELSE [md |-> md, raised |-> FALSE]

RECURSIVE ParseWeather(_, _, _, _)
\* The for loop over the weather containers inside its try block: the first
\* container that raises ends the loop.
ParseWeather(grid, i, md, delim) ==
    IF i > Len(grid) THEN md
    ELSE LET r == ParseContainer(grid[i], md, delim)
         IN  IF r.raised THEN r.md ELSE ParseWeather(grid, i + 1, r.md, delim)

\* RevealSync.extract_metadata: None when the sidebar is missing, else the
\* metadata dict.
ExtractWith(view, delim) ==
    IF ~view.sidebar THEN None
    ELSE LET m1 == [EmptyMetadata EXCEPT !.timestamp = view.timestamp]
             m2 == IF Len(view.locations) >= 2
                   THEN [m1 EXCEPT !.location =
                           Some([primary |-> view.locations[1],
                                 secondary |-> view.locations[2]])]
                   ELSE m1
             m3 == IF IsSome(view.grid)
                   THEN ParseWeather(Get(view.grid), 1, m2, delim)
                   ELSE m2
         IN  Some(m3)

extract_metadata(view) == ExtractWith(view, TempDelimiter)

\* Truth value of a metadata dict: some key is present.
Truthy(md) == \E k \in DOMAIN md : IsSome(md[k])

\* datetime.strptime(timestamp_str, "%B %d, %Y %I:%M %p") succeeds.  A
\* timestamp text is one of the shapes of TimestampTexts.
TimestampTexts == {"B d, Y I:M p", "B d, I:M p", "garbage"}
StrptimeOk(ts) == ts = "B d, Y I:M p"

\* Mutation: the except clause of strptime leaves capture_time unset.
RowColumns_NoFallback(md) ==
    LET ts == IF IsSome(md.timestamp) THEN Get(md.timestamp) ELSE ""
        location == md.location
        temperature == md.temperature
        wind == md.wind
    IN  [capture_time |-> IF StrptimeOk(ts) THEN "parsed" ELSE "null",
         primary_location |-> IF IsSome(location) THEN Some(Get(location).primary) ELSE Some(<<>>),
         secondary_location |-> IF IsSome(location) THEN Some(Get(location).secondary) ELSE Some(<<>>),
         temperature |-> IF IsSome(temperature) THEN Some(Get(temperature).value) ELSE None,
         temperature_unit |-> IF IsSome(temperature) THEN Some(Get(temperature).unit) ELSE Some(<<"F">>),
         wind_speed |-> IF IsSome(wind) THEN Some(Get(wind).speed) ELSE None,
         wind_direction |-> IF IsSome(wind) THEN Some(Get(wind).direction) ELSE Some(<<>>),
         wind_unit |-> IF IsSome(wind) THEN Some(Get(wind).unit) ELSE Some(<<"m", "p", "h">>),
         raw_metadata |-> md]

\* The columns store_image_data derives from the metadata.
RowColumns(md) ==
    LET ts == IF IsSome(md.timestamp) THEN Get(md.timestamp) ELSE ""
        location == md.location
        temperature == md.temperature
        wind == md.wind
    IN  [capture_time |-> IF StrptimeOk(ts) THEN "parsed" ELSE "now",
         primary_location |-> IF IsSome(location) THEN Some(Get(location).primary) ELSE Some(<<>>),
         secondary_location |-> IF IsSome(location) THEN Some(Get(location).secondary) ELSE Some(<<>>),
         temperature |-> IF IsSome(temperature) THEN Some(Get(temperature).value) ELSE None,
         temperature_unit |-> IF IsSome(temperature) THEN Some(Get(temperature).unit) ELSE Some(<<"F">>),
         wind_speed |-> IF IsSome(wind) THEN Some(Get(wind).speed) ELSE None,
         wind_direction |-> IF IsSome(wind) THEN Some(Get(wind).direction) ELSE Some(<<>>),
         wind_unit |-> IF IsSome(wind) THEN Some(Get(wind).unit) ELSE Some(<<"m", "p", "h">>),
         raw_metadata |-> md]

(***************************************************************************)
(* The remote source.  Record r (1 is the oldest) is shown newest first;   *)
(* the page exposes three identifying attributes of a record: the id of    *)
(* its gallery card, the file name stem of the detail image's src, and the *)
(* data-photo-id of the detail image.                                      *)
(***************************************************************************)
Payloads == 1..4
BytesOf(p) == IF p = 2 THEN 500 ELSE IF p = 4 THEN 11000000 ELSE 2048 * p
\* hashlib.md5(f.read()).hexdigest()
Md5(p) == <<"md5", p>>

VARIABLES published, payloadOf, site,
          catalog, objects, staging, nextUuid,
          pc, mode, latest_id, successful_count, attempt, found_existing,
          cursor, detailOpen, processed_ids, jump_count, record_limit,
          runs, faults, outcome, last, runStart, prev, inflight,
          images, image_tags, analyzer

vars == <<published, payloadOf, site, catalog, objects, staging, nextUuid,
          pc, mode, latest_id, successful_count, attempt, found_existing,
          cursor, detailOpen, processed_ids, jump_count, record_limit,
          runs, faults, outcome, last, runStart, prev, inflight,
          images, image_tags, analyzer>>

siteVars == <<published, payloadOf, site>>
tagVars == <<images, image_tags, analyzer>>
storeVars == <<catalog, objects, staging, nextUuid>>
histVars == <<runStart, prev>>
runVars == <<pc, mode, latest_id, successful_count, attempt, found_existing,
             cursor, detailOpen, processed_ids, jump_count, record_limit>>

\* The record under the cursor: position 1 is the newest record.
RecordAt(pos) == published - pos + 1

\* The three attributes of record r.  site.ids tells which of them the page
\* renders with the same value:
\*   same           all three agree
\*   card_differs   the card id differs from the other two
\*   photo_differs  data-photo-id differs from the other two
\*   stem_differs   the file name stem differs from the other two
\*   all_differ     no two agree
IdSchemes == {"same", "card_differs", "photo_differs", "stem_differs", "all_differ"}

\* src.split('?')[0].split('/')[-1].split('.')[0] of img#single-photo
StemId(r) == <<"stem", r>>
\* single_photo.get_attribute('data-photo-id')
PhotoId(r) == IF site.ids \in {"same", "card_differs"} THEN StemId(r) ELSE <<"photo", r>>
\* card.get_attribute('id')
CardId(r) == IF site.ids \in {"same", "photo_differs"} THEN StemId(r)
             ELSE IF site.ids = "stem_differs" THEN PhotoId(r)
             ELSE <<"card", r>>

\* page.keyboard.press('ArrowRight'): the next record, the same record on
\* the last one.
ArrowRight(pos) == IF pos < published THEN pos + 1 ELSE pos

(***************************************************************************)
(* The catalog (table images, in insertion order), the object store and    *)
(* the downloads directory.                                                *)
(***************************************************************************)
\* Mutation: the duplicate query compares the file_hash only.
Exists_HashOnly(cat, file_hash, reveal_id) ==
    \E i \in 1..Len(cat) : cat[i].file_hash = file_hash

\* Mutation: the duplicate query compares the reveal_id only.
Exists_IdOnly(cat, file_hash, reveal_id) ==
    \E i \in 1..Len(cat) : cat[i].reveal_id = reveal_id

Exists(cat, file_hash, reveal_id) ==
    \E i \in 1..Len(cat) : cat[i].file_hash = file_hash \/ cat[i].reveal_id = reveal_id

\* Mutation: ORDER BY created_at ascending.
LatestIn_Oldest(cat) == IF cat = <<>> THEN None ELSE Some(cat[1].reveal_id)

\* RevealSync.get_latest_image_id
LatestIn(cat) == IF cat = <<>> THEN None ELSE Some(cat[Len(cat)].reveal_id)

\* RevealSync.validate_image_file; every download is saved as a .jpg.
validate_image_file(stg, reveal_id, payload) ==
    /\ reveal_id \in stg
    /\ BytesOf(payload) <= MAX_IMAGE_SIZE

\* Mutation: the URL is returned also after the last attempt failed.
upload_to_spaces_Swallow(objs, stg, uuid, reveal_id, payload, failing) ==
    IF ~(reveal_id \in stg /\ BytesOf(payload) <= MAX_IMAGE_SIZE)
    THEN [url |-> None, objects |-> objs, uuid |-> uuid, events |-> <<>>]
    ELSE LET name == [id |-> reveal_id, suffix |-> uuid]
             fails == IF failing < MAX_UPLOAD_RETRIES THEN failing ELSE MAX_UPLOAD_RETRIES
             failEv == [k \in 1..(2 * fails) |-> IF k % 2 = 1 THEN "upload_fail" ELSE "sleep"]
         IN  IF failing < MAX_UPLOAD_RETRIES
             THEN [url |-> Some(name), objects |-> objs \cup {name}, uuid |-> uuid + 1,
                   events |-> Append(failEv, "upload_ok")]
             ELSE [url |-> Some(name), objects |-> objs, uuid |-> uuid + 1,
                   events |-> SubSeq(failEv, 1, 2 * fails - 1)]

\* Mutation: the backoff is also waited after the last failed attempt.
upload_to_spaces_SleepLast(objs, stg, uuid, reveal_id, payload, failing) ==
    IF ~(reveal_id \in stg /\ BytesOf(payload) <= MAX_IMAGE_SIZE)
    THEN [url |-> None, objects |-> objs, uuid |-> uuid, events |-> <<>>]
    ELSE LET name == [id |-> reveal_id, suffix |-> uuid]
             fails == IF failing < MAX_UPLOAD_RETRIES THEN failing ELSE MAX_UPLOAD_RETRIES
             failEv == [k \in 1..(2 * fails) |-> IF k % 2 = 1 THEN "upload_fail" ELSE "sleep"]
         IN  IF failing < MAX_UPLOAD_RETRIES
             THEN [url |-> Some(name), objects |-> objs \cup {name}, uuid |-> uuid + 1,
                   events |-> Append(failEv, "upload_ok")]
             ELSE [url |-> None, objects |-> objs, uuid |-> uuid + 1,
                   events |-> failEv]

\* Mutation: the object is named after the reveal_id alone.
upload_to_spaces_NoSuffix(objs, stg, uuid, reveal_id, payload, failing) ==
    IF ~(reveal_id \in stg /\ BytesOf(payload) <= MAX_IMAGE_SIZE)
    THEN [url |-> None, objects |-> objs, uuid |-> uuid, events |-> <<>>]
    ELSE LET name == [id |-> reveal_id, suffix |-> 0]
             fails == IF failing < MAX_UPLOAD_RETRIES THEN failing ELSE MAX_UPLOAD_RETRIES
             failEv == [k \in 1..(2 * fails) |-> IF k % 2 = 1 THEN "upload_fail" ELSE "sleep"]
         IN  IF failing < MAX_UPLOAD_RETRIES
             THEN [url |-> Some(name), objects |-> objs \cup {name}, uuid |-> uuid + 1,
                   events |-> Append(failEv, "upload_ok")]
             ELSE [url |-> None, objects |-> objs, uuid |-> uuid + 1,
                   events |-> SubSeq(failEv, 1, 2 * fails - 1)]

\* RevealSync.upload_to_spaces with the first `failing` upload attempts
\* failing: the URL (None on failure), the object store and the events.
upload_to_spaces(objs, stg, uuid, reveal_id, payload, failing) ==
    IF ~validate_image_file(stg, reveal_id, payload)
    THEN [url |-> None, objects |-> objs, uuid |-> uuid, events |-> <<>>]
    ELSE LET name == [id |-> reveal_id, suffix |-> uuid]
             fails == IF failing < MAX_UPLOAD_RETRIES THEN failing ELSE MAX_UPLOAD_RETRIES
             failEv == [k \in 1..(2 * fails) |-> IF k % 2 = 1 THEN "upload_fail" ELSE "sleep"]
         IN  IF failing < MAX_UPLOAD_RETRIES
             THEN [url |-> Some(name), objects |-> objs \cup {name}, uuid |-> uuid + 1,
                   events |-> Append(failEv, "upload_ok")]
             ELSE [url |-> None, objects |-> objs, uuid |-> uuid + 1,
                   events |-> SubSeq(failEv, 1, 2 * fails - 1)]

\* Mutation: the row is written without its cdn_url.
NewRow_NoUrl(reveal_id, payload, url, md) ==
    [reveal_id |-> reveal_id, file_hash |-> Md5(payload), cdn_url |-> None,
     bytes |-> BytesOf(payload), cols |-> RowColumns(md)]

NewRow(reveal_id, payload, url, md) ==
    [reveal_id |-> reveal_id, file_hash |-> Md5(payload), cdn_url |-> url,
     bytes |-> BytesOf(payload), cols |-> RowColumns(md)]

\* Mutation: the local file is removed before the upload is attempted.
store_image_data_RemoveFirst(cat, objs, stg, uuid, md, reveal_id, payload, f) ==
    LET same == [catalog |-> cat, objects |-> objs, staging |-> stg, uuid |-> uuid]
    IN  IF f = "store_db"
        THEN same @@ [events |-> <<"recheck_fail", "rollback">>, raised |-> TRUE]
        ELSE IF Exists(cat, Md5(payload), reveal_id)
        THEN same @@ [events |-> <<"recheck_dup">>, raised |-> FALSE]
        ELSE LET failing == IF f = "upload_1" THEN 1 ELSE IF f = "upload_2" THEN 2
                            ELSE IF f = "upload_all" THEN MAX_UPLOAD_RETRIES ELSE 0
                 up == upload_to_spaces(objs, stg, uuid, reveal_id, payload, failing)
                 ev1 == <<"recheck">> \o up.events
             IN  IF IsNone(up.url)
                 THEN [catalog |-> cat, objects |-> up.objects, staging |-> stg \ {reveal_id},
                       uuid |-> up.uuid, events |-> Append(ev1, "rollback"), raised |-> TRUE]
                 ELSE IF f = "insert"
                 THEN [catalog |-> cat, objects |-> up.objects, staging |-> stg,
                       uuid |-> up.uuid,
                       events |-> ev1 \o <<"insert_fail", "rollback">>, raised |-> TRUE]
                 ELSE [catalog |-> Append(cat, NewRow(reveal_id, payload, up.url, md)),
                       objects |-> up.objects, staging |-> stg \ {reveal_id},
                       uuid |-> up.uuid,
                       events |-> ev1 \o <<"insert", "commit", "remove">>, raised |-> FALSE]

\* RevealSync.store_image_data under fault f.
store_image_data(cat, objs, stg, uuid, md, reveal_id, payload, f) ==
    LET same == [catalog |-> cat, objects |-> objs, staging |-> stg, uuid |-> uuid]
    IN  IF f = "store_db"
        THEN same @@ [events |-> <<"recheck_fail", "rollback">>, raised |-> TRUE]
        ELSE IF Exists(cat, Md5(payload), reveal_id)
        THEN same @@ [events |-> <<"recheck_dup">>, raised |-> FALSE]
        ELSE LET failing == IF f = "upload_1" THEN 1 ELSE IF f = "upload_2" THEN 2
                            ELSE IF f = "upload_all" THEN MAX_UPLOAD_RETRIES ELSE 0
                 up == upload_to_spaces(objs, stg, uuid, reveal_id, payload, failing)
                 ev1 == <<"recheck">> \o up.events
             IN  IF IsNone(up.url)
                 THEN [catalog |-> cat, objects |-> up.objects, staging |-> stg,
                       uuid |-> up.uuid, events |-> Append(ev1, "rollback"), raised |-> TRUE]
                 ELSE IF f = "insert"
                 THEN [catalog |-> cat, objects |-> up.objects, staging |-> stg,
                       uuid |-> up.uuid,
                       events |-> ev1 \o <<"insert_fail", "rollback">>, raised |-> TRUE]
                 ELSE [catalog |-> Append(cat, NewRow(reveal_id, payload, up.url, md)),
                       objects |-> up.objects, staging |-> stg \ {reveal_id},
                       uuid |-> up.uuid,
                       events |-> ev1 \o <<"insert", "commit", "remove">>, raised |-> FALSE]

\* RevealSync.validate_image
validate_image(cat, stg, reveal_id, payload, f) ==
    /\ reveal_id \in stg
    /\ f # "validate_db"
    /\ ~Exists(cat, Md5(payload), reveal_id)

(***************************************************************************)
(* Faults.  Each step of a run is taken under one fault (or none):         *)
(*   id_read      get_current_image_id times out                           *)
(*   detail       the card click / the detail view lookup fails            *)
(*   extract      the sidebar is missing in extract_metadata               *)
(*   download     the download button or the transfer fails                *)
(*   validate_db  the query of validate_image raises                       *)
(*   store_db     the SELECT of store_image_data raises                    *)
(*   upload_1, upload_2, upload_all   the first 1, 2, all upload attempts  *)
(*                fail                                                     *)
(*   insert       the INSERT raises                                        *)
(*   nav_press    the ArrowRight key press raises                          *)
(*   nav_wait     the wait for the next detail view raises                 *)
(*   count_pre, count_post   a row-count query of the loop raises          *)
(***************************************************************************)
Faults == {"id_read", "detail", "extract", "download", "validate_db", "store_db",
           "upload_1", "upload_2", "upload_all", "insert", "nav_press", "nav_wait",
           "count_pre", "count_post"}
FaultChoices == {"none"} \cup Faults

\* RevealSync.download_image: the saved path (None on failure or duplicate).
download_image(cat, stg, reveal_id, payload, f) ==
    IF f = "download"
    THEN [path |-> None, staging |-> stg, events |-> <<"download_fail">>]
    ELSE LET saved == stg \cup {reveal_id}
         IN  IF validate_image(cat, saved, reveal_id, payload, f)
             THEN [path |-> Some(reveal_id), staging |-> saved,
                   events |-> <<"download", "validate_ok">>]
             ELSE [path |-> None, staging |-> saved \ {reveal_id},
                   events |-> <<"download", "validate_fail", "unlink">>]

\* The part of process_image after reveal_id is known (lines 203-241).
ProcessBody(card, pos, r, reveal_id, f) ==
    LET seen == processed_ids \cup {reveal_id}
        base == [cursor |-> pos, detailOpen |-> TRUE, processed_ids |-> seen,
                 catalog |-> catalog, objects |-> objects, staging |-> staging,
                 uuid |-> nextUuid, rec |-> r, id |-> Some(reveal_id)]
        mdOpt == IF f = "extract" THEN None ELSE site.metadata
    IN  IF IsNone(mdOpt) \/ ~Truthy(Get(mdOpt))
        THEN base @@ [events |-> <<"extract_fail">>, raised |-> FALSE]
        ELSE
          LET dl == download_image(catalog, staging, reveal_id, payloadOf[r], f)
              st == IF IsSome(dl.path)
                    THEN store_image_data(catalog, objects, dl.staging, nextUuid,
                                          Get(mdOpt), reveal_id, payloadOf[r], f)
                    ELSE [catalog |-> catalog, objects |-> objects, staging |-> dl.staging,
                          uuid |-> nextUuid, events |-> <<>>, raised |-> FALSE]
              ev == <<"extract">> \o dl.events \o st.events
              after == [base EXCEPT !.catalog = st.catalog, !.objects = st.objects,
                                    !.staging = st.staging, !.uuid = st.uuid]
          IN  IF st.raised
              THEN after @@ [events |-> ev, raised |-> FALSE]
              ELSE IF card
              THEN after @@ [events |-> ev, raised |-> FALSE]
              ELSE IF f = "nav_press"
              THEN after @@ [events |-> Append(ev, "advance_fail"), raised |-> TRUE]
              ELSE IF f = "nav_wait"
              THEN [after EXCEPT !.cursor = ArrowRight(pos)]
                   @@ [events |-> Append(ev, "advance_fail"), raised |-> TRUE]
              ELSE [after EXCEPT !.cursor = ArrowRight(pos)]
                   @@ [events |-> Append(ev, "advance"), raised |-> FALSE]

\* Mutation: an id found in processed_ids is processed again.
process_image_NoSkip(card, f) ==
    LET same == [cursor |-> cursor, detailOpen |-> detailOpen,
                 processed_ids |-> processed_ids,
                 catalog |-> catalog, objects |-> objects, staging |-> staging,
                 uuid |-> nextUuid, rec |-> 0, id |-> None]
    IN  IF card
        THEN IF f = "detail"
             THEN same @@ [events |-> <<"no_detail">>, raised |-> FALSE]
             ELSE ProcessBody(TRUE, 1, RecordAt(1), CardId(RecordAt(1)), f)
        ELSE IF ~detailOpen \/ f = "detail"
             THEN same @@ [events |-> <<"no_detail">>, raised |-> FALSE]
             ELSE LET r == RecordAt(cursor)
                      reveal_id == StemId(r)
                  IN  ProcessBody(FALSE, cursor, r, reveal_id, f)

\* RevealSync.process_image(card): card is TRUE for the first card of the
\* gallery, FALSE for the record of the current detail view.
process_image(card, f) ==
    LET same == [cursor |-> cursor, detailOpen |-> detailOpen,
                 processed_ids |-> processed_ids,
                 catalog |-> catalog, objects |-> objects, staging |-> staging,
                 uuid |-> nextUuid, rec |-> 0, id |-> None]
    IN  IF card
        THEN IF f = "detail"
             THEN same @@ [events |-> <<"no_detail">>, raised |-> FALSE]
             ELSE ProcessBody(TRUE, 1, RecordAt(1), CardId(RecordAt(1)), f)
        ELSE IF ~detailOpen \/ f = "detail"
             THEN same @@ [events |-> <<"no_detail">>, raised |-> FALSE]
             ELSE LET r == RecordAt(cursor)
                      reveal_id == StemId(r)
                  IN  IF reveal_id \in processed_ids
                      THEN [same EXCEPT !.cursor = IF f = "nav_press" THEN cursor
                                                   ELSE ArrowRight(cursor),
                                        !.rec = r, !.id = Some(reveal_id)]
                           @@ [events |-> <<"seen", IF f = "nav_press" THEN "advance_fail"
                                                    ELSE "advance">>,
                               raised |-> FALSE]
                      ELSE ProcessBody(FALSE, cursor, r, reveal_id, f)

\* RevealSync.get_current_image_id: data-photo-id of #single-photo, None
\* when the element does not appear within the timeout.
get_current_image_id(f) ==
    IF ~detailOpen \/ f = "id_read" THEN None ELSE Some(PhotoId(RecordAt(cursor)))

(***************************************************************************)
(* Detail views used by the runs.                                          *)
(***************************************************************************)
Txt_72F == <<"7", "2", "Â", "°", "F">>
Txt_72F_plain == <<"7", "2", "°", "F">>
Txt_wind == <<"N", " ", "5", " ", "m", "p", "h">>
Txt_wind_bad == <<"N", "/", "A">>
Txt_pressure == <<"3", "0", ".", "1", " ", "i", "n">>
Txt_sun == <<"D", "a", "y">>
Txt_moon == <<"F", "u", "l", "l", "\n", "M", "o", "o", "n">>

Box(kw, text) == [label |-> Some({kw}), value |-> Some(text)]

ViewOf(grid) ==
    [sidebar |-> TRUE, timestamp |-> Some("B d, Y I:M p"),
     locations |-> << <<"F">>, <<"C">> >>, grid |-> Some(grid)]

GoodGrid ==
    << Box("TEMP", Txt_72F), Box("WIND", Txt_wind), Box("PRESSURE", Txt_pressure),
       Box("SUN", Txt_sun), Box("MOON", Txt_moon) >>
BadWindGrid ==
    << Box("TEMP", Txt_72F), Box("WIND", Txt_wind_bad), Box("PRESSURE", Txt_pressure),
       Box("SUN", Txt_sun), Box("MOON", Txt_moon) >>

MainViews == {ViewOf(GoodGrid)}

\* A site: how it renders ids, the detail view it shows, and what
\* extract_metadata returns on that view (the view does not change, so the
\* call is evaluated once per site).
SiteOf(ids, view) == [ids |-> ids, view |-> view, metadata |-> extract_metadata(view)]

Sites == {SiteOf(i, v) : i \in IdSchemes, v \in MainViews}

NoStep == [op |-> "init", events |-> <<>>, rec |-> 0, id |-> None]

\* The orchestrators that may commit at the same time, and a commit that
\* has not begun.
Workers == {"a", "b"}
IdleWorker == [phase |-> "idle", rec |-> 0, payload |-> 0, url |-> None, commits |-> 0]

\* The tagging job before its first run.
IdleAnalyzer ==
    [pc |-> "idle", job |-> "none", batch |-> <<>>, pos |-> 0, image_data |-> None,
     processed |-> 0, step |-> [id |-> 0, download |-> "none", result |-> "none"]]

\* The state before the first run, on one of the given sites.
InitSync(sites) ==
    /\ published = 0
    /\ payloadOf = <<>>
    /\ site \in sites
    /\ catalog = <<>>
    /\ objects = {}
    /\ staging = {}
    /\ nextUuid = 1
    /\ pc = "idle"
    /\ mode = "none"
    /\ latest_id = None
    /\ successful_count = 0
    /\ attempt = 0
    /\ found_existing = FALSE
    /\ cursor = 1
    /\ detailOpen = FALSE
    /\ processed_ids = {}
    /\ jump_count = 0
    /\ record_limit = 0
    /\ runs = 0
    /\ faults = 0
    /\ outcome = "none"
    /\ last = NoStep
    /\ runStart = [rows |-> 0, published |-> 0, faults |-> 0]
    /\ prev = [mode |-> "none", outcome |-> "none", published |-> 0, faulty |-> FALSE]
    /\ inflight = [w \in Workers |-> IdleWorker]

\* The same with no image known to the tagging job.
InitFrom(sites) ==
    /\ InitSync(sites)
    /\ images = <<>>
    /\ image_tags = <<>>
    /\ analyzer = IdleAnalyzer

Init == InitFrom(Sites)

\* A fault may be injected while the fault budget lasts.
Inject(f) ==
    /\ f = "none" \/ faults < MaxFaults
    /\ faults' = IF f = "none" THEN faults ELSE faults + 1

\* The remote source publishes a new record (between runs); the r-th record
\* carries one of the first r payloads.
PublishTo(p, max) ==
    /\ pc = "idle"
    /\ published < max
    /\ p <= published + 1
    /\ published' = published + 1
    /\ payloadOf' = Append(payloadOf, p)
    /\ last' = [NoStep EXCEPT !.op = "publish"]
    /\ UNCHANGED <<histVars, site, inflight, tagVars, storeVars, runVars, runs, faults, outcome>>

Publish(p) == PublishTo(p, MaxRecords)
PublishSmall(p) == PublishTo(p, MaxAllRecords)

\* RevealSync.cleanup_directories on the downloads directory: every file
\* is unlinked, and a file whose unlink raises (the files in locked) stays,
\* the error being printed only (lines 57-61).
cleanup_directories(stg, locked) == stg \cap locked

\* RevealSync.sync up to the card query (lines 574-605), as one of at most
\* maxRuns runs; locked are the staged files that cannot be unlinked.
StartSyncLocked(force, maxRuns, locked) ==
    /\ pc = "idle"
    /\ runs < maxRuns
    /\ runs' = runs + 1
    /\ staging' = cleanup_directories(staging, locked)
    /\ latest_id' = LatestIn(catalog)
    /\ mode' = IF force THEN "force" ELSE "normal"
    /\ processed_ids' = {}
    /\ detailOpen' = FALSE
    /\ cursor' = 1
    /\ successful_count' = 0
    /\ attempt' = 0
    /\ found_existing' = FALSE
    /\ IF published = 0
       THEN pc' = "idle" /\ outcome' = "no_cards"
       ELSE pc' = "first" /\ outcome' = "running"
    /\ runStart' = [rows |-> Len(catalog), published |-> published, faults |-> faults]
    /\ prev' = [mode |-> mode, outcome |-> outcome, published |-> runStart.published,
                faulty |-> faults > runStart.faults]
    /\ last' = [NoStep EXCEPT !.op = "start"]
    /\ UNCHANGED <<siteVars, inflight, tagVars, catalog, objects, nextUuid, jump_count, record_limit, faults>>

\* A start whose cleanup meets no error.
StartSyncWithin(force, maxRuns) == StartSyncLocked(force, maxRuns, {})

StartSync(force) == StartSyncWithin(force, MaxRuns)

\* RevealSync.sync when connect_db or login raises: the exception passes
\* through the except clause of sync (raise e) and out of main.
SyncAbort(force, stage) ==
    /\ pc = "idle"
    /\ runs < MaxRuns
    /\ stage \in {"connect", "login"}
    /\ Inject(stage)
    /\ runs' = runs + 1
    /\ staging' = cleanup_directories(staging, {})
    /\ latest_id' = IF stage = "login" THEN LatestIn(catalog) ELSE None
    /\ mode' = IF force THEN "force" ELSE "normal"
    /\ processed_ids' = {}
    /\ detailOpen' = FALSE
    /\ cursor' = 1
    /\ successful_count' = 0
    /\ attempt' = 0
    /\ found_existing' = FALSE
    /\ pc' = "idle"
    /\ outcome' = "failed"
    /\ runStart' = [rows |-> Len(catalog), published |-> published, faults |-> faults]
    /\ prev' = [mode |-> mode, outcome |-> outcome, published |-> runStart.published,
                faulty |-> faults > runStart.faults]
    /\ last' = [NoStep EXCEPT !.op = "abort"]
    /\ UNCHANGED <<siteVars, inflight, tagVars, catalog, objects, nextUuid, jump_count, record_limit>>

\* The exit status of the process: asyncio.run(main()) returns when sync
\* returns, and an exception that leaves sync ends the interpreter with 1.
ExitStatus(o) == IF o = "failed" THEN 1 ELSE 0

Apply(res) ==
    /\ cursor' = res.cursor
    /\ detailOpen' = res.detailOpen
    /\ processed_ids' = res.processed_ids
    /\ catalog' = res.catalog
    /\ objects' = res.objects
    /\ staging' = res.staging
    /\ nextUuid' = res.uuid

Watermark(f) ==
    /\ mode = "normal"
    /\ IsSome(latest_id)
    /\ get_current_image_id(f) = latest_id

\* Mutation: an error on the first card leaves sync.
FirstCard_Abort(f) ==
    /\ pc = "first"
    /\ Inject(f)
    /\ IF Watermark(f)
       THEN /\ pc' = "idle"
            /\ outcome' = "no_new"
            /\ last' = [NoStep EXCEPT !.op = "first", !.events = <<"watermark">>]
            /\ UNCHANGED <<storeVars, cursor, detailOpen, processed_ids, successful_count>>
       ELSE LET res == process_image(TRUE, f)
            IN  /\ Apply(res)
                /\ successful_count' = IF res.raised THEN successful_count
                                       ELSE successful_count + 1
                /\ pc' = IF Len(res.events) > 0 /\ res.events[Len(res.events)]
                                \in {"extract_fail", "download_fail", "rollback"}
                         THEN "idle" ELSE "loop"
                /\ outcome' = IF pc' = "idle" THEN "failed" ELSE outcome
                /\ last' = [op |-> "first", events |-> res.events,
                            rec |-> res.rec, id |-> res.id]
    /\ UNCHANGED <<histVars, siteVars, inflight, tagVars, mode, latest_id, attempt, found_existing,
                   jump_count, record_limit, runs>>

\* RevealSync.sync, the first card (lines 607-622).
FirstCard(f) ==
    /\ pc = "first"
    /\ Inject(f)
    /\ IF Watermark(f)
       THEN /\ pc' = "idle"
            /\ outcome' = "no_new"
            /\ last' = [NoStep EXCEPT !.op = "first", !.events = <<"watermark">>]
            /\ UNCHANGED <<storeVars, cursor, detailOpen, processed_ids, successful_count>>
       ELSE LET res == process_image(TRUE, f)
            IN  /\ Apply(res)
                /\ successful_count' = IF res.raised THEN successful_count
                                       ELSE successful_count + 1
                /\ pc' = "loop"
                /\ last' = [op |-> "first", events |-> res.events,
                            rec |-> res.rec, id |-> res.id]
                /\ UNCHANGED outcome
    /\ UNCHANGED <<histVars, siteVars, inflight, tagVars, mode, latest_id, attempt, found_existing,
                   jump_count, record_limit, runs>>

\* Mutation: the loop condition without the attempt budget.
LoopGuard_NoBudget == successful_count < target_count /\ ~found_existing

LoopGuard ==
    successful_count < target_count /\ attempt < max_attempts /\ ~found_existing

\* RevealSync.sync, one iteration of the while loop (lines 625-663).
LoopIter(f) ==
    /\ pc = "loop"
    /\ LoopGuard
    /\ Inject(f)
    /\ attempt' = attempt + 1
    /\ IF Watermark(f)
       THEN /\ found_existing' = TRUE
            /\ last' = [NoStep EXCEPT !.op = "iter", !.events = <<"watermark">>]
            /\ UNCHANGED <<storeVars, cursor, detailOpen, processed_ids, successful_count>>
       ELSE IF f = "count_pre"
       THEN /\ last' = [NoStep EXCEPT !.op = "iter", !.events = <<"count_fail">>]
            /\ UNCHANGED <<storeVars, cursor, detailOpen, processed_ids,
                           successful_count, found_existing>>
       ELSE LET res == process_image(FALSE, f)
            IN  /\ Apply(res)
                /\ successful_count' =
                      IF ~res.raised /\ f # "count_post" /\ Len(res.catalog) > Len(catalog)
                      THEN successful_count + 1 ELSE successful_count
                /\ last' = [op |-> "iter", events |-> res.events,
                            rec |-> res.rec, id |-> res.id]
                /\ UNCHANGED found_existing
    /\ UNCHANGED <<histVars, siteVars, inflight, tagVars, pc, mode, latest_id, jump_count, record_limit, runs, outcome>>

\* RevealSync.sync, after the loop (lines 665-679).
Finish ==
    /\ pc = "loop"
    /\ ~LoopGuard
    /\ pc' = "idle"
    /\ outcome' = IF successful_count = target_count THEN "target"
                  ELSE IF found_existing THEN "watermark" ELSE "exhausted"
    /\ last' = [NoStep EXCEPT !.op = "finish"]
    /\ UNCHANGED <<histVars, siteVars, inflight, tagVars, storeVars, mode, latest_id, successful_count, attempt,
                   found_existing, cursor, detailOpen, processed_ids,
                   jump_count, record_limit, runs, faults>>

\* Mutation: the loop over range(jump_count) runs one press short.
Advance_OneShort(pos, k) == IF k = 0 THEN pos ELSE pos + k - 1

RECURSIVE Advance(_, _)
\* k presses of ArrowRight from position pos.
Advance(pos, k) == IF k = 0 THEN pos ELSE Advance(ArrowRight(pos), k - 1)

\* RevealSyncJump.sync up to the jump (lines 79-95).
StartJump(n, m) ==
    /\ pc = "idle"
    /\ runs < MaxRuns
    /\ runs' = runs + 1
    /\ staging' = cleanup_directories(staging, {})
    /\ mode' = "jump"
    /\ jump_count' = n
    /\ record_limit' = m
    /\ latest_id' = None
    /\ processed_ids' = {}
    /\ detailOpen' = FALSE
    /\ cursor' = 1
    /\ successful_count' = 0
    /\ attempt' = 0
    /\ found_existing' = FALSE
    /\ pc' = "jump"
    /\ outcome' = "running"
    /\ runStart' = [rows |-> Len(catalog), published |-> published, faults |-> faults]
    /\ prev' = [mode |-> mode, outcome |-> outcome, published |-> runStart.published,
                faulty |-> faults > runStart.faults]
    /\ last' = [NoStep EXCEPT !.op = "start_jump"]
    /\ UNCHANGED <<siteVars, inflight, tagVars, catalog, objects, nextUuid, faults>>

\* RevealSyncJump.jump_to_position and its call (lines 50-77, 96-99); under
\* fault nav_press the press number k + 1 raises.
JumpToPosition(f, k) ==
    /\ pc = "jump"
    /\ f \in {"none", "detail", "nav_press"}
    /\ k \in 0..(jump_count - 1) \/ (k = 0 /\ f # "nav_press")
    /\ Inject(f)
    /\ IF published = 0 \/ f = "detail"
       THEN /\ pc' = "idle"
            /\ outcome' = "failed"
            /\ UNCHANGED <<cursor, detailOpen>>
       ELSE IF f = "nav_press"
       THEN /\ pc' = "idle"
            /\ outcome' = "jump_failed"
            /\ detailOpen' = TRUE
            /\ cursor' = Advance(1, k)
       ELSE /\ pc' = "jloop"
            /\ detailOpen' = TRUE
            /\ cursor' = Advance(1, jump_count)
            /\ UNCHANGED outcome
    /\ last' = [NoStep EXCEPT !.op = "jump"]
    /\ UNCHANGED <<histVars, siteVars, inflight, tagVars, storeVars, mode, latest_id, successful_count, attempt,
                   found_existing, processed_ids, jump_count, record_limit, runs>>

JumpGuard == successful_count < record_limit /\ attempt < jump_max_attempts

\* The value process_image returns when it does not raise: every return of
\* it is a bare return.
process_image_value(res) == None

\* success, is_duplicate = await self.process_image(None)
\* Unpacking None raises TypeError; the loop's except clause catches it.
JumpSuccess(res) ==
    LET v == process_image_value(res)
    IN  ~res.raised /\ IsSome(v) /\ Get(v).success

\* RevealSyncJump.sync, one iteration of the while loop (lines 106-118).
JumpIter(f) ==
    /\ pc = "jloop"
    /\ JumpGuard
    /\ f \notin {"id_read", "count_pre", "count_post"}
    /\ Inject(f)
    /\ attempt' = attempt + 1
    /\ LET res == process_image(FALSE, f)
       IN  /\ Apply(res)
           /\ successful_count' = IF JumpSuccess(res) THEN successful_count + 1
                                  ELSE successful_count
           /\ last' = [op |-> "jiter", events |-> res.events,
                       rec |-> res.rec, id |-> res.id]
    /\ UNCHANGED <<histVars, siteVars, inflight, tagVars, pc, mode, latest_id, found_existing,
                   jump_count, record_limit, runs, outcome>>

\* RevealSyncJump.sync, after the loop (lines 120-132).
JumpFinish ==
    /\ pc = "jloop"
    /\ ~JumpGuard
    /\ pc' = "idle"
    /\ outcome' = IF successful_count = record_limit THEN "target" ELSE "exhausted"
    /\ last' = [NoStep EXCEPT !.op = "jfinish"]
    /\ UNCHANGED <<histVars, siteVars, inflight, tagVars, storeVars, mode, latest_id, successful_count, attempt,
                   found_existing, cursor, detailOpen, processed_ids,
                   jump_count, record_limit, runs, faults>>

\* Normal and forced runs.
Next ==
    \/ \E p \in Payloads : Publish(p)
    \/ \E force \in BOOLEAN : StartSync(force)
    \/ \E f \in FaultChoices : FirstCard(f)
    \/ \E f \in FaultChoices : LoopIter(f)
    \/ Finish

Spec == Init /\ [][Next]_vars

\* A site whose three id attributes agree.
InitSame == InitFrom({s \in Sites : s.ids = "same"})

\* Normal and forced runs over a short gallery on such a site.
NextSame ==
    \/ \E p \in Payloads : PublishSmall(p)
    \/ \E force \in BOOLEAN : StartSync(force)
    \/ \E f \in FaultChoices : FirstCard(f)
    \/ \E f \in FaultChoices : LoopIter(f)
    \/ Finish

SpecSame == InitSame /\ [][NextSame]_vars

\* The same runs, and runs that fail before the gallery is reached.
NextExit ==
    \/ \E p \in Payloads : PublishSmall(p)
    \/ \E force \in BOOLEAN : StartSync(force)
    \/ \E f \in FaultChoices : FirstCard(f)
    \/ \E f \in FaultChoices : LoopIter(f)
    \/ Finish
    \/ \E force \in BOOLEAN, stage \in {"connect", "login"} : SyncAbort(force, stage)

SpecExit == InitSame /\ [][NextExit]_vars

\* Jump runs: the jump phase under faults, the loop after it without.  A
\* jump run reads the file name stem only.
NextJump ==
    \/ \E p \in Payloads : PublishSmall(p)
    \/ \E n \in 0..MaxJump, m \in 1..MaxLimit : StartJump(n, m)
    \/ \E f \in FaultChoices, k \in 0..MaxJump : JumpToPosition(f, k)
    \/ JumpIter("none")
    \/ JumpFinish

SpecJump == InitSame /\ [][NextJump]_vars

\* Fault-free runs of all three kinds, one at a time, on every site.
NextAll ==
    \/ \E p \in Payloads : PublishSmall(p)
    \/ \E force \in BOOLEAN : StartSync(force)
    \/ FirstCard("none")
    \/ LoopIter("none")
    \/ Finish
    \/ \E n \in 0..MaxJump : StartJump(n, MaxLimit)
    \/ JumpToPosition("none", 0)
    \/ JumpIter("none")
    \/ JumpFinish

SpecAll == Init /\ [][NextAll]_vars

(***************************************************************************)
(* Extraction over the renderings of the weather grid: the five weather    *)
(* containers in any order, the wind text well-formed or malformed, the    *)
(* temperature text with either degree sign.                               *)
(***************************************************************************)
WeatherKeys == {"TEMP", "WIND", "PRESSURE", "SUN", "MOON"}
TempTexts == {Txt_72F, Txt_72F_plain}
WindTexts == {Txt_wind, Txt_wind_bad}

TextOf(kw, temp, wind) ==
    IF kw = "TEMP" THEN temp
    ELSE IF kw = "WIND" THEN wind
    ELSE IF kw = "PRESSURE" THEN Txt_pressure
    ELSE IF kw = "SUN" THEN Txt_sun
    ELSE Txt_moon

Orders == {o \in [1..Cardinality(WeatherKeys) -> WeatherKeys] :
              \A i, j \in DOMAIN o : i # j => o[i] # o[j]}

GridOf(o, temp, wind) == [i \in DOMAIN o |-> Box(o[i], TextOf(o[i], temp, wind))]

ExtractViews == {ViewOf(GridOf(o, temp, wind)) : o \in Orders, temp \in TempTexts,
                                                   wind \in WindTexts}

ExtractSites == {SiteOf("same", v) : v \in ExtractViews}

\* Fault-free non-forced runs over one published record.
NextExtract ==
    \/ PublishTo(1, 1)
    \/ StartSync(FALSE)
    \/ FirstCard("none")
    \/ LoopIter("none")
    \/ Finish

SpecExtract == InitFrom(ExtractSites) /\ [][NextExtract]_vars

(***************************************************************************)
(* store_image_data called on its own: any published payload, alone in the *)
(* downloads directory under the reveal_id of any published record.        *)
(***************************************************************************)
StoreImageData(r, q, f) ==
    /\ pc = "idle"
    /\ r \in 1..published
    /\ q \in 1..published
    /\ f \in {"none", "store_db", "upload_1", "upload_2", "upload_all", "insert"}
    /\ Inject(f)
    /\ LET res == store_image_data(catalog, objects, {StemId(r)}, nextUuid,
                                   Get(site.metadata), StemId(r), payloadOf[q], f)
       IN  /\ catalog' = res.catalog
           /\ objects' = res.objects
           /\ staging' = res.staging
           /\ nextUuid' = res.uuid
           /\ last' = [op |-> "store", events |-> res.events, rec |-> q,
                       id |-> Some(StemId(r))]
    /\ UNCHANGED <<histVars, siteVars, inflight, tagVars, runVars, runs, outcome>>

NextCommit ==
    \/ \E p \in Payloads : PublishSmall(p)
    \/ \E r, q \in 1..MaxAllRecords, f \in FaultChoices : StoreImageData(r, q, f)

SpecCommit == InitSame /\ [][NextCommit]_vars

(***************************************************************************)
(* Fault-free non-forced runs against an upstream that grows between runs. *)
(***************************************************************************)
NextGap ==
    \/ \E p \in Payloads : PublishTo(p, MaxGapRecords)
    \/ StartSyncWithin(FALSE, MaxGapRuns)
    \/ FirstCard("none")
    \/ LoopIter("none")
    \/ Finish

SpecGap == InitSame /\ [][NextGap]_vars

(***************************************************************************)
(* Runs of every kind under fair scheduling.  A run is one coroutine       *)
(* driven by asyncio.run, and every call it waits on returns or raises     *)
(* within its timeout, so a step of a started run that can be taken is     *)
(* taken.  A jump run is taken as the first run only: its loop never      *)
(* counts a success and so always makes its 200 iterations.  The runs of   *)
(* reveal_sync.py are non-forced: a forced run differs only in never       *)
(* meeting the watermark, as a run over an empty catalog does.             *)
(***************************************************************************)
RunStep ==
    \/ \E f \in FaultChoices : FirstCard(f)
    \/ \E f \in FaultChoices : LoopIter(f)
    \/ Finish
    \/ \E f \in FaultChoices, k \in 0..MaxJump : JumpToPosition(f, k)
    \/ JumpIter("none")
    \/ JumpFinish

NextLive ==
    \/ \E p \in Payloads : PublishTo(p, MaxLiveRecords)
    \/ StartSyncWithin(FALSE, MaxLiveRuns)
    \/ runs = 0 /\ StartJump(MaxJump, MaxLimit)
    \/ RunStep

SpecLive == InitSame /\ [][NextLive]_vars /\ WF_vars(RunStep)

(***************************************************************************)
(* Helpers of the properties.                                              *)
(***************************************************************************)
Count(seq, e) == Cardinality({k \in 1..Len(seq) : seq[k] = e})
Has(seq, e) == \E k \in 1..Len(seq) : seq[k] = e
Before(seq, a, b) == \E i, j \in 1..Len(seq) : i < j /\ seq[i] = a /\ seq[j] = b
Processing == last.op \in {"first", "iter", "jiter"}

(***************************************************************************)
(* C1.  After any sequence of normal, forced and jump runs executed one at *)
(* a time, no two catalog rows share a reveal_id and no two catalog rows   *)
(* share a file_hash, also when the same payload reappears upstream under  *)
(* a different id.                                                         *)
(***************************************************************************)
C1_Unique ==
    \A i, j \in 1..Len(catalog) :
        i # j => /\ catalog[i].reveal_id # catalog[j].reveal_id
                 /\ catalog[i].file_hash # catalog[j].file_hash

\* A payload already archived under another id was downloaded and refused.
C1_Witness ==
    /\ Processing
    /\ IsSome(last.id)
    /\ Has(last.events, "validate_fail")
    /\ \E i \in 1..Len(catalog) :
          /\ catalog[i].file_hash = Md5(payloadOf[last.rec])
          /\ catalog[i].reveal_id # Get(last.id)
    /\ \A i \in 1..Len(catalog) : catalog[i].reveal_id # Get(last.id)
    /\ \E r \in 1..published : r # last.rec /\ payloadOf[r] = payloadOf[last.rec]

(***************************************************************************)
(* C2.  Every catalog row has a non-null cdn_url, the cdn_url names an     *)
(* object that is in the object store, and within a commit the successful  *)
(* upload precedes the insert.                                             *)
(***************************************************************************)
C2_RowHasObject ==
    /\ \A i \in 1..Len(catalog) :
          /\ IsSome(catalog[i].cdn_url)
          /\ Get(catalog[i].cdn_url) \in objects
    /\ Has(last.events, "insert") => Before(last.events, "upload_ok", "insert")

\* A row was inserted by the last step after an upload that needed a retry.
C2_Witness ==
    /\ Processing
    /\ Has(last.events, "insert")
    /\ Has(last.events, "upload_fail")
    /\ Len(catalog) > runStart.rows

(***************************************************************************)
(* C3.  A commit whose upload fails on every attempt of the retry budget   *)
(* leaves the catalog as it was, with no row for the record.               *)
(***************************************************************************)
UploadExhausted(l) == Count(l.events, "upload_fail") = MAX_UPLOAD_RETRIES

C3_UploadAbort ==
    [][ UploadExhausted(last') =>
          /\ catalog' = catalog
          /\ ~Exists(catalog', Md5(payloadOf[last'.rec]), Get(last'.id)) ]_vars

C3_Witness ==
    /\ UploadExhausted(last)
    /\ Has(last.events, "rollback")
    /\ ~Has(last.events, "upload_ok")

(***************************************************************************)
(* C4.  When a non-forced run has ended and no record was published since  *)
(* it started, the non-forced run that follows inserts no row and ends by  *)
(* the watermark stop.                                                     *)
(***************************************************************************)
RunEnded == {"target", "watermark", "exhausted", "no_new"}

C4_Idempotent ==
    ( /\ pc = "idle"
      /\ mode = "normal"
      /\ outcome \in RunEnded
      /\ prev.mode = "normal"
      /\ prev.outcome \in RunEnded
      /\ prev.published = runStart.published )
    => /\ Len(catalog) = runStart.rows
       /\ outcome = "watermark"

(***************************************************************************)
(* C5.  In a non-forced run whose watermark is the id of upstream record   *)
(* w, every row the run inserts is of a record newer than w: no record at  *)
(* or after the watermark in the newest-first order is archived.           *)
(***************************************************************************)
WatermarkRecords ==
    {w \in 1..published : IsSome(latest_id) /\ PhotoId(w) = Get(latest_id)}

C5_Watermark ==
    [][ (mode = "normal" /\ pc \in {"first", "loop"} /\ Len(catalog') > Len(catalog))
          => \A w \in WatermarkRecords : last'.rec > w ]_vars

(***************************************************************************)
(* C6.  A jump run with limit M inserts at most M rows.                    *)
(***************************************************************************)
C6_JumpLimit ==
    mode = "jump" => Len(catalog) - runStart.rows <= record_limit

(***************************************************************************)
(* C7.  The jump phase of a jump run with offset N changes neither the     *)
(* catalog, the object store, the downloads directory nor processed_ids;   *)
(* when it succeeds the detail view is open on the record N places after   *)
(* the first one (the last record when fewer remain); when it fails the    *)
(* run ends with no record processed.                                      *)
(***************************************************************************)
C7_JumpPhase ==
    [][ pc = "jump" =>
          /\ catalog' = catalog
          /\ objects' = objects
          /\ staging' = staging
          /\ nextUuid' = nextUuid
          /\ processed_ids' = processed_ids
          /\ pc' = "jloop" =>
                /\ detailOpen'
                /\ cursor' = IF 1 + jump_count <= published THEN 1 + jump_count
                             ELSE published
          /\ pc' # "jloop" =>
                /\ pc' = "idle"
                /\ outcome' \in {"failed", "jump_failed"}
                /\ attempt' = 0
                /\ successful_count' = 0 ]_vars

\* A jump over at least one record has just succeeded against a catalog
\* that already holds rows.
C7_Witness ==
    /\ last.op = "jump"
    /\ pc = "jloop"
    /\ jump_count >= 1
    /\ cursor = 1 + jump_count
    /\ catalog # <<>>

(***************************************************************************)
(* C8.  A payload below the minimum size (1000 bytes) is never uploaded    *)
(* and never becomes a catalog row.                                        *)
(***************************************************************************)
C8_MinPayload ==
    /\ \A i \in 1..Len(catalog) : catalog[i].bytes >= MIN_IMAGE_SIZE
    /\ (Processing /\ Has(last.events, "upload_ok"))
          => BytesOf(payloadOf[last.rec]) >= MIN_IMAGE_SIZE

(***************************************************************************)
(* C9.  A record whose wind text is malformed is committed by a fault-free *)
(* run, its wind columns are null and its temperature, pressure, sun       *)
(* status, moon phase, timestamp and location are populated, in whatever   *)
(* order the weather containers appear.                                    *)
(***************************************************************************)
WindMalformed ==
    \E i \in 1..Len(Get(site.view.grid)) :
        /\ Get(site.view.grid)[i].label = Some({"WIND"})
        /\ Get(site.view.grid)[i].value = Some(Txt_wind_bad)

C9_PartialFields ==
    (pc = "idle" /\ outcome \in RunEnded /\ published = 1 /\ WindMalformed)
    => /\ Len(catalog) = 1
       /\ LET cols == catalog[1].cols
              md == cols.raw_metadata
          IN  /\ IsNone(md.wind)
              /\ IsNone(cols.wind_speed)
              /\ IsNone(cols.wind_direction)
              /\ IsNone(cols.wind_unit)
              /\ IsSome(cols.temperature)
              /\ IsSome(md.pressure)
              /\ IsSome(md.sun_status)
              /\ IsSome(md.moon_phase)
              /\ cols.capture_time = "parsed"
              /\ IsSome(md.location)

(***************************************************************************)
(* C10.  store_image_data called for a record whose file_hash or reveal_id *)
(* is already in the catalog inserts no row and uploads nothing: catalog   *)
(* and object store stay as they were.                                     *)
(***************************************************************************)
C10_DuplicateCommit ==
    [][ ( /\ last'.op = "store"
          /\ \E i \in 1..Len(catalog) :
                \/ catalog[i].file_hash = Md5(payloadOf[last'.rec])
                \/ catalog[i].reveal_id = Get(last'.id) )
        => /\ catalog' = catalog
           /\ objects' = objects
           /\ ~Has(last'.events, "upload_ok")
           /\ ~Has(last'.events, "insert") ]_vars

\* A commit was refused for its hash alone: the payload is archived under
\* another reveal_id.
C10_Witness ==
    /\ last.op = "store"
    /\ last.events = <<"recheck_dup">>
    /\ \A i \in 1..Len(catalog) : catalog[i].reveal_id # Get(last.id)
    /\ \E i \in 1..Len(catalog) : catalog[i].file_hash = Md5(payloadOf[last.rec])

(***************************************************************************)
(* C11.  Throughout a normal or forced run the watermark is the reveal_id  *)
(* of the row that was the most recently created one when the run started  *)
(* (none when the catalog was empty), whatever earlier runs held; a forced *)
(* run never stops at the watermark.                                       *)
(***************************************************************************)
C11_WatermarkOnEntry ==
    /\ mode \in {"normal", "force"} =>
          latest_id = IF runStart.rows = 0 THEN None
                      ELSE Some(catalog[runStart.rows].reveal_id)
    /\ mode = "force" => /\ ~found_existing
                         /\ outcome \notin {"watermark", "no_new"}

\* A forced second run has ended after passing over the record of its
\* watermark, which is not the first row of the catalog.
C11_Witness ==
    /\ mode = "force"
    /\ pc = "idle"
    /\ runs >= 2
    /\ outcome \in {"target", "exhausted"}
    /\ runStart.rows >= 2
    /\ latest_id = Some(catalog[runStart.rows].reveal_id)
    /\ \E w \in 1..published : PhotoId(w) = Get(latest_id) /\ w >= RecordAt(cursor)

(***************************************************************************)
(* C12.  A run that ends at the target count or at the watermark exits     *)
(* with status 0; a navigation fault ends the run as failed, with a        *)
(* non-zero exit status.                                                   *)
(***************************************************************************)
C12_ExitStatus ==
    /\ (pc = "idle" /\ outcome \in {"target", "watermark", "no_new"})
          => ExitStatus(outcome) = 0
    /\ (mode \in {"normal", "force"} /\ Processing /\ Has(last.events, "advance_fail"))
          => (pc = "idle" /\ ExitStatus(outcome) # 0)

(***************************************************************************)
(* C13.  In every state of a normal or forced run successful_count equals  *)
(* the number of rows the run has inserted so far: a step that inserts no  *)
(* row (a failure, a duplicate) leaves the count as it was, the first      *)
(* record included.                                                        *)
(***************************************************************************)
C13_CountsInserts ==
    mode \in {"normal", "force"} => successful_count = Len(catalog) - runStart.rows

(***************************************************************************)
(* C14.  When a non-forced run of a sequence of non-forced runs has ended  *)
(* by the watermark stop, every upstream record that is newer than some    *)
(* archived record is archived too: no gap is left between archived        *)
(* records, also when more than target_count records were published        *)
(* between two runs.  A record counts as archived when the catalog holds   *)
(* its reveal_id or its file_hash; a payload above the maximum size is not *)
(* expected in the catalog.                                                *)
(***************************************************************************)
InCatalog(r) == \E i \in 1..Len(catalog) : catalog[i].reveal_id = StemId(r)
Archived(r) == Exists(catalog, Md5(payloadOf[r]), StemId(r))

C14_NoGap ==
    ( /\ pc = "idle"
      /\ mode = "normal"
      /\ outcome \in {"watermark", "no_new"}
      /\ published = runStart.published )
    => \A r \in 1..published :
          ( /\ \E a \in 1..(r - 1) : InCatalog(a)
            /\ BytesOf(payloadOf[r]) <= MAX_IMAGE_SIZE )
          => Archived(r)

(***************************************************************************)
(* C15.  Within one commit the uniqueness re-check comes first, the upload *)
(* attempts follow, the insert comes after the successful upload and the   *)
(* removal of the local file after the insert; the local file is gone      *)
(* after the commit exactly when the file was removed after both upload    *)
(* and insert succeeded, and it is still in place when every upload        *)
(* attempt failed.                                                         *)
(***************************************************************************)
CommitStep ==
    /\ IsSome(last.id)
    /\ \/ Has(last.events, "recheck")
       \/ Has(last.events, "recheck_dup")
       \/ Has(last.events, "recheck_fail")

PrecededBy(seq, k, e) == \E i \in 1..(k - 1) : seq[i] = e

C15_CommitOrder ==
    CommitStep =>
       LET ev == last.events
       IN  /\ \A k \in 1..Len(ev) :
                 /\ ev[k] \in {"upload_fail", "sleep", "upload_ok"}
                       => PrecededBy(ev, k, "recheck")
                 /\ ev[k] \in {"insert", "insert_fail"}
                       => PrecededBy(ev, k, "upload_ok")
                 /\ ev[k] = "remove"
                       => /\ PrecededBy(ev, k, "upload_ok")
                          /\ PrecededBy(ev, k, "insert")
                          /\ PrecededBy(ev, k, "commit")
           /\ (Get(last.id) \notin staging) <=> Has(ev, "remove")
           /\ UploadExhausted(last) => Get(last.id) \in staging

\* A record of a run was given up after the last upload attempt failed and
\* its file is still in the downloads directory.
C15_Witness ==
    /\ Processing
    /\ CommitStep
    /\ UploadExhausted(last)
    /\ last.events[Len(last.events)] = "rollback"
    /\ Get(last.id) \in staging
    /\ catalog # <<>>

(***************************************************************************)
(* C16.  A step whose insert fails after the upload succeeded leaves no    *)
(* row for the record, does not count the record in successful_count and   *)
(* makes no second insert attempt; and every step changes the excess of    *)
(* the stored objects over the catalog rows by one when its insert failed  *)
(* and not at all otherwise, so that the excess is the number of failed    *)
(* inserts.                                                                *)
(***************************************************************************)
Excess(objs, cat) == Cardinality(objs) - Len(cat)

C16_FailedInsert ==
    [][ /\ Excess(objects', catalog') =
              Excess(objects, catalog)
                 + (IF Has(last'.events, "insert_fail") THEN 1 ELSE 0)
        /\ Has(last'.events, "insert_fail") =>
              /\ Has(last'.events, "upload_ok")
              /\ catalog' = catalog
              /\ ~Exists(catalog', Md5(payloadOf[last'.rec]), Get(last'.id))
              /\ Count(last'.events, "insert_fail") = 1
              /\ ~Has(last'.events, "insert")
              /\ successful_count' = successful_count ]_vars

(***************************************************************************)
(* C17.  One commit makes at most MAX_UPLOAD_RETRIES upload attempts and   *)
(* none after the first success; the backoff is waited after a failed      *)
(* attempt exactly when another attempt follows, so never after the last   *)
(* one; at most one insert is attempted; and after the last failed         *)
(* attempt the commit fails without an insert.                             *)
(***************************************************************************)
IsAttempt(e) == e \in {"upload_fail", "upload_ok"}

C17_RetryBudget ==
    CommitStep =>
       LET ev == last.events
           n == Len(ev)
       IN  /\ Cardinality({k \in 1..n : IsAttempt(ev[k])}) <= MAX_UPLOAD_RETRIES
           /\ \A k \in 1..n :
                 /\ ev[k] = "upload_ok"
                       => \A j \in (k + 1)..n : ~IsAttempt(ev[j]) /\ ev[j] # "sleep"
                 /\ ev[k] = "upload_fail"
                       => \/ k < n /\ ev[k + 1] = "sleep"
                          \/ \A j \in (k + 1)..n : ~IsAttempt(ev[j])
                 /\ ev[k] = "sleep"
                       => /\ k > 1 /\ ev[k - 1] = "upload_fail"
                          /\ k < n /\ IsAttempt(ev[k + 1])
           /\ Count(ev, "insert") + Count(ev, "insert_fail") <= 1
           /\ UploadExhausted(last)
                 => /\ ~Has(ev, "upload_ok")
                    /\ ~Has(ev, "insert")
                    /\ ~Has(ev, "insert_fail")
                    /\ ev[n] = "rollback"

\* A commit went through on its third upload attempt, after two waits.
C17_Witness ==
    /\ last.op = "store"
    /\ Count(last.events, "upload_fail") = MAX_UPLOAD_RETRIES - 1
    /\ Count(last.events, "sleep") = MAX_UPLOAD_RETRIES - 1
    /\ Before(last.events, "upload_ok", "insert")
    /\ Len(catalog) >= 1

WithinBudgets ==
    /\ mode \in {"normal", "force"} =>
          /\ successful_count <= target_count
          /\ attempt <= max_attempts
          /\ Len(catalog) - runStart.rows <= target_count
    /\ mode = "jump" =>
          /\ successful_count <= record_limit
          /\ attempt <= jump_max_attempts

EntersLoopBelowBudgets ==
    /\ (pc = "loop" /\ attempt' # attempt) =>
          (successful_count < target_count /\ attempt < max_attempts)
    /\ (pc = "jloop" /\ attempt' # attempt) =>
          (successful_count < record_limit /\ attempt < jump_max_attempts)

(***************************************************************************)
(* C18.  In every state of a run successful_count is at most the target    *)
(* and attempt at most the attempt budget, an iteration of the loop starts *)
(* only while both are below their bounds, and a run of reveal_sync.py     *)
(* has inserted at most target_count rows.                                 *)
(***************************************************************************)
C18_Budgets == []WithinBudgets /\ [][EntersLoopBelowBudgets]_vars

(***************************************************************************)
(* C19.  Every run terminates: a run that has started reaches its end,     *)
(* whatever faults its steps meet, and the loop has then made at most      *)
(* max_attempts iterations (200 in a jump run).                            *)
(***************************************************************************)
C19_Terminates ==
    /\ [](attempt <= IF mode = "jump" THEN jump_max_attempts ELSE max_attempts)
    /\ (pc # "idle") ~> (pc = "idle")

\* A run that met a fault has ended after using up its attempt budget.
C19_Witness ==
    /\ pc = "idle"
    /\ mode \in {"normal", "force"}
    /\ outcome = "exhausted"
    /\ attempt = max_attempts
    /\ faults > runStart.faults

(***************************************************************************)
(* C20.  A loop iteration in which extraction, download, duplicate check   *)
(* or commit fails for the record under the cursor, and whose navigation   *)
(* does not itself fail, still moves the cursor to the next record.        *)
(***************************************************************************)
StageFailed(ev) ==
    \/ Has(ev, "extract_fail")
    \/ Has(ev, "download_fail")
    \/ Has(ev, "validate_fail")
    \/ Has(ev, "rollback")

C20_FailureAdvances ==
    [][ ( /\ last'.op = "iter"
          /\ StageFailed(last'.events)
          /\ ~Has(last'.events, "advance_fail") )
        => /\ Has(last'.events, "advance")
           /\ cursor' = ArrowRight(cursor) ]_vars

(***************************************************************************)
(* C21.  In every state of a run processed_ids holds only reveal_ids of    *)
(* rows that this run has committed: the id of a record whose extraction,  *)
(* download or commit failed is not in the set.                            *)
(***************************************************************************)
CommittedInRun ==
    {catalog[i].reveal_id : i \in (runStart.rows + 1)..Len(catalog)}

C21_SeenOnlyCommitted ==
    mode \in {"normal", "force", "jump"} => processed_ids \subseteq CommittedInRun

(***************************************************************************)
(* C22.  A loop iteration that reaches process_image with the detail view  *)
(* on a record whose reveal_id is in processed_ids extracts, downloads and *)
(* commits nothing and leaves the catalog, the object store and            *)
(* processed_ids as they were; when no call of the iteration fails it      *)
(* presses ArrowRight once and does nothing else.                          *)
(***************************************************************************)
SeenIteration ==
    /\ pc = "loop"
    /\ attempt' = attempt + 1
    /\ found_existing' = found_existing
    /\ detailOpen
    /\ StemId(RecordAt(cursor)) \in processed_ids

C22_SeenSkips ==
    [][ SeenIteration =>
          /\ catalog' = catalog
          /\ objects' = objects
          /\ staging' = staging
          /\ processed_ids' = processed_ids
          /\ ~Has(last'.events, "extract")
          /\ ~Has(last'.events, "extract_fail")
          /\ ~Has(last'.events, "download")
          /\ ~Has(last'.events, "download_fail")
          /\ ~Has(last'.events, "recheck")
          /\ Count(last'.events, "advance") <= 1
          /\ faults' = faults =>
                /\ last'.events = <<"seen", "advance">>
                /\ cursor' = ArrowRight(cursor) ]_vars

\* The loop has just passed over an already processed record that is not
\* the last one of the gallery.
C22_Witness ==
    /\ last.op = "iter"
    /\ last.events = <<"seen", "advance">>
    /\ last.rec = published
    /\ cursor = 2
    /\ published >= 2
    /\ Get(last.id) \in processed_ids

(***************************************************************************)
(* C23.  After a loop iteration that pressed ArrowRight on the last        *)
(* upstream record, where no further record follows, the loop runs no      *)
(* further iteration: the run ends there.                                  *)
(***************************************************************************)
AdvancedPastLast ==
    /\ pc = "loop"
    /\ last.op = "iter"
    /\ last.rec = 1
    /\ Has(last.events, "advance")
    /\ RecordAt(cursor) = 1

C23_EndOfSequence ==
    [][ AdvancedPastLast => (attempt' = attempt /\ pc' = "idle") ]_vars

(***************************************************************************)
(* C24.  After a loop iteration whose ArrowRight navigation failed the     *)
(* loop is over and the run ends as failed: no further iteration runs and  *)
(* no further record is processed.                                         *)
(***************************************************************************)
NavigationFailed ==
    /\ pc = "loop"
    /\ last.op = "iter"
    /\ Has(last.events, "advance_fail")

C24_NavigationFails ==
    [][ NavigationFailed =>
          /\ attempt' = attempt
          /\ catalog' = catalog
          /\ processed_ids' = processed_ids
          /\ pc' = "idle"
          /\ outcome' = "failed" ]_vars

(***************************************************************************)
(* C25.  A step of a run on a record whose reveal_id is already in the     *)
(* catalog downloads no payload; and whenever a payload is refused for its *)
(* hash, the download came first.                                          *)
(***************************************************************************)
C25_IdCheckBeforeDownload ==
    [][ /\ ( /\ last'.op \in {"first", "iter", "jiter"}
             /\ IsSome(last'.id)
             /\ \E i \in 1..Len(catalog) : catalog[i].reveal_id = Get(last'.id) )
           => ~Has(last'.events, "download")
        /\ Has(last'.events, "validate_fail")
           => Before(last'.events, "download", "validate_fail") ]_vars

(***************************************************************************)
(* C26.  A step of a run in which the catalog or the object store cannot   *)
(* be reached (the query of store_image_data, a row-count query, every     *)
(* upload attempt or the insert fails) ends the run as failed at once.     *)
(***************************************************************************)
InfrastructureFailure(l) ==
    \/ Has(l.events, "recheck_fail")
    \/ Has(l.events, "count_fail")
    \/ Has(l.events, "insert_fail")
    \/ UploadExhausted(l)

C26_InfrastructureAborts ==
    [][ (last'.op \in {"first", "iter"} /\ InfrastructureFailure(last'))
          => (pc' = "idle" /\ outcome' = "failed") ]_vars

(***************************************************************************)
(* C27.  A step in which the extraction, the download or the commit of a   *)
(* record fails, on the first card or in the loop, does not end the run:   *)
(* the run is in its loop afterwards, where later records can still be     *)
(* archived.                                                               *)
(***************************************************************************)
RecordError(ev) ==
    \/ Has(ev, "extract_fail")
    \/ Has(ev, "download_fail")
    \/ Has(ev, "rollback")

C27_RecordErrorContinues ==
    [][ (last'.op \in {"first", "iter"} /\ RecordError(last'.events))
          => (pc' = "loop" /\ outcome' = "running") ]_vars

\* A loop iteration has archived a record while another record, processed
\* earlier in the same run, failed and is not archived.
C27_Witness ==
    /\ last.op = "iter"
    /\ Has(last.events, "insert")
    /\ \E r \in 1..published :
          /\ r # last.rec
          /\ StemId(r) \in processed_ids
          /\ ~Archived(r)

(***************************************************************************)
(* C28.  In every step of a run that processes a record, the id that       *)
(* get_current_image_id gives for the comparison with the watermark is the *)
(* reveal_id under which the step puts the record in processed_ids and in  *)
(* the catalog, on the first card and in the loop alike.                   *)
(***************************************************************************)
C28_SameIdentifier ==
    [][ (last'.op \in {"first", "iter"} /\ IsSome(last'.id))
          => /\ get_current_image_id("none") = last'.id
             /\ Get(last'.id) \in processed_ids'
             /\ Len(catalog') > Len(catalog)
                   => catalog'[Len(catalog')].reveal_id = Get(last'.id) ]_vars

(***************************************************************************)
(* C29.  Within a run a record whose payload was downloaded in one step is *)
(* not downloaded again in the next step, although the detail view is      *)
(* still on it: in particular the first card is not downloaded again by    *)
(* the first loop iteration.                                               *)
(***************************************************************************)
C29_DownloadOnce ==
    [][ ( /\ pc = "loop"
          /\ last.op \in {"first", "iter"}
          /\ Has(last.events, "download")
          /\ last'.op = "iter"
          /\ last'.rec = last.rec )
        => ~Has(last'.events, "download") ]_vars

(***************************************************************************)
(* C30.  Every successful upload writes an object under a name that no     *)
(* earlier commit has used, formed from the reveal_id of the record and a  *)
(* fresh suffix; objects already stored stay as they are, also when the    *)
(* same reveal_id or the same payload is committed again.                  *)
(***************************************************************************)
C30_FreshObjectName ==
    [][ /\ objects \subseteq objects'
        /\ Has(last'.events, "upload_ok") =>
              /\ Cardinality(objects') = Cardinality(objects) + 1
              /\ \A n \in objects' \ objects : n.id = Get(last'.id) ]_vars

\* The same reveal_id has been uploaded by two commits, the first of which
\* lost its insert.
C30_Witness ==
    /\ last.op = "store"
    /\ Has(last.events, "upload_ok")
    /\ \E a, b \in objects : a # b /\ a.id = b.id /\ a.id = Get(last.id)

\* Runs whose cleanup may fail to unlink staged files: the staged files of
\* an earlier run are those of commits whose upload failed.
NextClean ==
    \/ \E p \in Payloads : PublishSmall(p)
    \/ \E force \in BOOLEAN, locked \in SUBSET staging :
          StartSyncLocked(force, MaxRuns, locked)
    \/ \E f \in FaultChoices : FirstCard(f)
    \/ \E f \in FaultChoices : LoopIter(f)
    \/ Finish

SpecClean == InitSame /\ [][NextClean]_vars

(***************************************************************************)
(* C31.  When a run has started (cleanup done, catalog queried, no         *)
(* navigation step taken yet) the staging area is empty: no payload file   *)
(* of an earlier run is left.                                              *)
(***************************************************************************)
C31_StagingEmptied ==
    last.op \in {"start", "start_jump"} => staging = {}

(***************************************************************************)
(* Two orchestrators committing against the same catalog with no run lock: *)
(* store_image_data of each proceeds in its three steps (query, upload,    *)
(* INSERT and commit), and the steps of the two interleave.  Each          *)
(* orchestrator holds the payload it downloaded in its own downloads       *)
(* directory.                                                              *)
(***************************************************************************)
\* INSERT INTO images on a table with unique constraints on reveal_id and
\* on file_hash: the statement raises when either value is already there.
insert_images(cat, row) ==
    IF \E i \in 1..Len(cat) : \/ cat[i].reveal_id = row.reveal_id
                              \/ cat[i].file_hash = row.file_hash
    THEN [catalog |-> cat, ok |-> FALSE]
    ELSE [catalog |-> Append(cat, row), ok |-> TRUE]

\* store_image_data, lines 458-473: the hash and the duplicate query.
RaceCheck(w, r, q) ==
    /\ pc = "idle"
    /\ inflight[w].phase \in {"idle", "dup", "failed", "stored"}
    /\ inflight[w].commits < MaxRaceCommits
    /\ r \in 1..published
    /\ q \in 1..published
    /\ LET dup == Exists(catalog, Md5(payloadOf[q]), StemId(r))
       IN  /\ inflight' = [inflight EXCEPT ![w] =
                              [phase |-> IF dup THEN "dup" ELSE "checked",
                               rec |-> r, payload |-> q, url |-> None,
                               commits |-> inflight[w].commits + 1]]
           /\ last' = [op |-> "race_check",
                       events |-> IF dup THEN <<"recheck_dup">> ELSE <<"recheck">>,
                       rec |-> q, id |-> Some(StemId(r))]
    /\ UNCHANGED <<histVars, siteVars, tagVars, storeVars, runVars, runs, faults, outcome>>

\* store_image_data, lines 475-478: the upload, and the rollback and raise
\* when it gave no URL.
RaceUpload(w, f) ==
    /\ pc = "idle"
    /\ inflight[w].phase = "checked"
    /\ f \in {"none", "upload_1", "upload_all"}
    /\ Inject(f)
    /\ LET reveal_id == StemId(inflight[w].rec)
           failing == IF f = "upload_1" THEN 1
                      ELSE IF f = "upload_all" THEN MAX_UPLOAD_RETRIES ELSE 0
           up == upload_to_spaces(objects, {reveal_id}, nextUuid, reveal_id,
                                  payloadOf[inflight[w].payload], failing)
       IN  /\ objects' = up.objects
           /\ nextUuid' = up.uuid
           /\ inflight' = [inflight EXCEPT ![w].phase = IF IsNone(up.url) THEN "failed"
                                                        ELSE "uploaded",
                                           ![w].url = up.url]
           /\ last' = [op |-> "race_upload",
                       events |-> IF IsNone(up.url) THEN Append(up.events, "rollback")
                                  ELSE up.events,
                       rec |-> inflight[w].payload, id |-> Some(reveal_id)]
    /\ UNCHANGED <<histVars, siteVars, tagVars, catalog, staging, runVars, runs, outcome>>

\* Mutation: INSERT ... ON CONFLICT (reveal_id) DO UPDATE, which overwrites
\* the row of the same reveal_id.
RaceInsert_Upsert(w) ==
    /\ pc = "idle"
    /\ inflight[w].phase = "uploaded"
    /\ LET reveal_id == StemId(inflight[w].rec)
           row == NewRow(reveal_id, payloadOf[inflight[w].payload],
                         inflight[w].url, Get(site.metadata))
           hit == {i \in 1..Len(catalog) : catalog[i].reveal_id = reveal_id}
           ins == insert_images(catalog, row)
       IN  /\ catalog' = IF hit # {}
                         THEN [i \in 1..Len(catalog) |-> IF i \in hit THEN row ELSE catalog[i]]
                         ELSE ins.catalog
           /\ inflight' = [inflight EXCEPT ![w].phase = IF ins.ok \/ hit # {} THEN "stored"
                                                        ELSE "failed"]
           /\ last' = [op |-> "race_insert",
                       events |-> IF ins.ok \/ hit # {} THEN <<"insert", "commit", "remove">>
                                  ELSE <<"insert_fail", "rollback">>,
                       rec |-> inflight[w].payload, id |-> Some(reveal_id)]
    /\ UNCHANGED <<histVars, siteVars, tagVars, objects, staging, nextUuid, runVars, runs,
                   faults, outcome>>

\* store_image_data, lines 489-527: the INSERT and the commit, or the
\* rollback and raise when the INSERT raises.
RaceInsert(w) ==
    /\ pc = "idle"
    /\ inflight[w].phase = "uploaded"
    /\ LET reveal_id == StemId(inflight[w].rec)
           ins == insert_images(catalog, NewRow(reveal_id, payloadOf[inflight[w].payload],
                                                inflight[w].url, Get(site.metadata)))
       IN  /\ catalog' = ins.catalog
           /\ inflight' = [inflight EXCEPT ![w].phase = IF ins.ok THEN "stored"
                                                        ELSE "failed"]
           /\ last' = [op |-> "race_insert",
                       events |-> IF ins.ok THEN <<"insert", "commit", "remove">>
                                  ELSE <<"insert_fail", "rollback">>,
                       rec |-> inflight[w].payload, id |-> Some(reveal_id)]
    /\ UNCHANGED <<histVars, siteVars, tagVars, objects, staging, nextUuid, runVars, runs,
                   faults, outcome>>

NextRace ==
    \/ \E p \in Payloads : PublishTo(p, MaxRaceRecords)
    \/ \E w \in Workers, r, q \in 1..MaxRaceRecords : RaceCheck(w, r, q)
    \/ \E w \in Workers : RaceUpload(w, "none")
    \/ \E w \in Workers : RaceInsert(w)

SpecRace == InitSame /\ [][NextRace]_vars

\* The INSERT of a commit meets a row with its reveal_id or its file_hash.
Collides(w) ==
    /\ inflight[w].phase = "uploaded"
    /\ Exists(catalog, Md5(payloadOf[inflight[w].payload]), StemId(inflight[w].rec))

(***************************************************************************)
(* C32.  When the commits of two orchestrators interleave, no two catalog  *)
(* rows share a reveal_id or a file_hash, and an INSERT that meets a row   *)
(* with its reveal_id or file_hash fails and is rolled back: the catalog   *)
(* stays as it was, no row is overwritten.                                 *)
(***************************************************************************)
C32_RaceUnique ==
    /\ [](\A i, j \in 1..Len(catalog) :
            i # j => /\ catalog[i].reveal_id # catalog[j].reveal_id
                     /\ catalog[i].file_hash # catalog[j].file_hash)
    /\ [][\A w \in Workers :
            Collides(w) /\ inflight'[w].phase # "uploaded" =>
               /\ catalog' = catalog
               /\ inflight'[w].phase = "failed"
               /\ Has(last'.events, "rollback") ]_vars

\* Both orchestrators passed the duplicate query for the same record before
\* either inserted; one row was committed and the other INSERT failed.
C32_Witness ==
    /\ last.op = "race_insert"
    /\ Has(last.events, "insert_fail")
    /\ \E v, w \in Workers :
          /\ inflight[v].phase = "stored"
          /\ inflight[w].phase = "failed"
          /\ inflight[v].rec = inflight[w].rec
          /\ inflight[v].url # inflight[w].url
    /\ Len(catalog) = 1

(***************************************************************************)
(* Fault-free runs against sites whose detail view shows a capture time in *)
(* one of the shapes of TimestampTexts, or none.                           *)
(***************************************************************************)
StampViews ==
    {[ViewOf(GoodGrid) EXCEPT !.timestamp = t] :
        t \in {Some(x) : x \in TimestampTexts} \cup {None}}

StampSites == {SiteOf("same", v) : v \in StampViews}

NextStamp ==
    \/ \E p \in Payloads : PublishSmall(p)
    \/ \E force \in BOOLEAN : StartSync(force)
    \/ FirstCard("none")
    \/ LoopIter("none")
    \/ Finish

SpecStamp == InitFrom(StampSites) /\ [][NextStamp]_vars

\* The metadata with a capture-time text that strptime accepts.
WithParseableTime(md) == [md EXCEPT !.timestamp = Some("B d, Y I:M p")]

\* The capture-time text of the site is absent or not accepted by strptime.
Unparseable ==
    ~(IsSome(Get(site.metadata).timestamp) /\ StrptimeOk(Get(Get(site.metadata).timestamp)))

\* The step commits as store_image_data would commit the same payload from
\* the same catalog and object store with a parseable capture time: the same
\* object, the same cdn_url, and the same columns but for capture_time and
\* the raw text kept in raw_metadata.
CommitsAsParseable ==
    LET id == Get(last'.id)
        ref == store_image_data(catalog, objects, staging \cup {id}, nextUuid,
                                WithParseableTime(Get(site.metadata)), id,
                                payloadOf[last'.rec], "none")
        row == catalog'[Len(catalog')]
        refRow == ref.catalog[Len(ref.catalog)]
    IN  /\ Has(last'.events, "commit")
        /\ Len(catalog') = Len(catalog) + 1
        /\ Len(ref.catalog) = Len(catalog) + 1
        /\ objects' = ref.objects
        /\ [row EXCEPT !.cols = refRow.cols] = refRow
        /\ [row.cols EXCEPT !.capture_time = refRow.cols.capture_time,
                            !.raw_metadata = refRow.cols.raw_metadata] = refRow.cols
        /\ row.cols.raw_metadata = Get(site.metadata)
        /\ row.cols.capture_time = IF Unparseable THEN "now" ELSE "parsed"

(***************************************************************************)
(* C33.  A record whose capture-time text is not accepted by strptime (or  *)
(* is absent) is committed all the same once its download was validated:   *)
(* its row has the ingestion time as capture_time, and every other column  *)
(* and the cdn_url are those of a commit with a parseable capture time.    *)
(***************************************************************************)
C33_CaptureTimeFallback ==
    [][ Processing' /\ Has(last'.events, "validate_ok") => CommitsAsParseable ]_vars

\* A record with an unparseable capture-time text has been committed.
C33_Witness ==
    /\ Processing
    /\ Has(last.events, "commit")
    /\ Get(site.metadata).timestamp = Some("garbage")
    /\ catalog[Len(catalog)].cols.capture_time = "now"
    /\ catalog[Len(catalog)].reveal_id = Get(last.id)

(***************************************************************************)
(* C34.  In every catalog row, a temperature or wind reading that the      *)
(* extraction did not deliver (absent from the view, or dropped as         *)
(* malformed) is null together with its unit and direction.                *)
(***************************************************************************)
C34_NullReadings ==
    \A i \in 1..Len(catalog) :
        LET c == catalog[i].cols
        IN  /\ IsNone(c.raw_metadata.temperature) =>
                  IsNone(c.temperature) /\ IsNone(c.temperature_unit)
            /\ IsNone(c.raw_metadata.wind) =>
                  IsNone(c.wind_speed) /\ IsNone(c.wind_direction) /\ IsNone(c.wind_unit)

(***************************************************************************)
(* The tagging jobs (reveal_analyze.py, analyze_untagged.py).  Table       *)
(* images as the jobs read it: image id i, the ids in the order of         *)
(* created_at, showing images[i]; image_tags[i] is the set of tags joined  *)
(* to image i; analyzer is the job in progress: its batch, the position in *)
(* it, the local image_data (None before its first assignment), the        *)
(* counter processed and a record of the last step.                        *)
(***************************************************************************)
syncVars == <<published, payloadOf, site, catalog, objects, staging, nextUuid,
              pc, mode, latest_id, successful_count, attempt, found_existing,
              cursor, detailOpen, processed_ids, jump_count, record_limit,
              runs, faults, outcome, last, runStart, prev, inflight>>

TagKinds == {"deer", "rabbit", "none"}
max_retries == 3
untagged_limit == 20

RECURSIVE NewestUntagged(_, _, _)
\* The ids from i downwards (created_at DESC) with no row in image_tags, at
\* most limit of them.
NewestUntagged(tags, i, limit) ==
    IF i = 0 \/ limit = 0 THEN <<>>
    ELSE IF tags[i] = {} THEN <<i>> \o NewestUntagged(tags, i - 1, limit - 1)
    ELSE NewestUntagged(tags, i - 1, limit)

get_untagged_images(tags, limit) == NewestUntagged(tags, Len(tags), limit)

\* count_untagged_images
count_untagged_images(tags) == Cardinality({i \in 1..Len(tags) : tags[i] = {}})

\* analyze_image followed by json.loads: the counts by animal (Some), or
\* None when the text is not JSON.  The model answers with the animal the
\* payload shows ("json"), with other text ("text"), or generate_content
\* raises and the function returns "{}" ("error").
analyze_image(image_data, answer) ==
    IF answer = "text" THEN None
    ELSE IF answer = "error" \/ image_data = "none" THEN Some({})
    ELSE Some({image_data})

\* format_tags_from_analysis: one tag per animal counted.
format_tags_from_analysis(animal_counts) == animal_counts

\* update_image_tags: the rows of the image are deleted and the new tags
\* inserted, or the transaction is rolled back when a statement raises.
update_image_tags(tags, image_id, new, dbfail) ==
    IF dbfail THEN [image_tags |-> tags, success |-> FALSE]
    ELSE [image_tags |-> [tags EXCEPT ![image_id] = new], success |-> TRUE]

\* The body of the loop after the download: analysis and tag update.
\* image_data is None when the local was never assigned (the read raises,
\* and the except clause goes on to the next record).
AnalyzeAndTag(tags, image_id, image_data, answer, dbfail) ==
    IF IsNone(image_data)
    THEN [image_tags |-> tags, counted |-> FALSE, result |-> "unbound"]
    ELSE LET animal_counts == analyze_image(Get(image_data), answer)
         IN  IF IsNone(animal_counts)
             THEN [image_tags |-> tags, counted |-> FALSE, result |-> "not_json"]
             ELSE LET new == format_tags_from_analysis(Get(animal_counts))
                  IN  IF new = {}
                      THEN [image_tags |-> tags, counted |-> FALSE, result |-> "no_tags"]
                      ELSE LET up == update_image_tags(tags, image_id, new, dbfail)
                           IN  [image_tags |-> up.image_tags, counted |-> up.success,
                                result |-> IF up.success THEN "tagged" ELSE "update_failed"]

\* The batches get_specific_images can return for --images.
SpecificBatches ==
    {b \in UNION {[1..n -> 1..Len(images)] : n \in 1..Len(images)} :
        \A i, j \in DOMAIN b : i # j => b[i] # b[j]}

\* reveal_analyze.main up to the loop (lines 237-251).
StartAnalyze(specific, batch) ==
    /\ pc = "idle"
    /\ analyzer.pc = "idle"
    /\ IF specific THEN batch \in SpecificBatches
       ELSE batch = get_untagged_images(image_tags, untagged_limit)
    /\ analyzer' = [IdleAnalyzer EXCEPT !.pc = IF batch = <<>> THEN "idle" ELSE "loop",
                                        !.job = "analyze", !.batch = batch, !.pos = 1]
    /\ UNCHANGED <<syncVars, images, image_tags>>

\* One iteration of the loop of reveal_analyze.main (lines 252-300), the
\* first `failing` calls of download_image raising; after the last record
\* the job ends (line 302).
AnalyzeRecord(failing, answer, dbfail) ==
    /\ pc = "idle"
    /\ analyzer.pc = "loop"
    /\ analyzer.job = "analyze"
    /\ failing \in 0..max_retries
    /\ LET image_id == analyzer.batch[analyzer.pos]
           image_data == IF failing < max_retries THEN Some(images[image_id])
                         ELSE analyzer.image_data
           res == AnalyzeAndTag(image_tags, image_id, image_data, answer, dbfail)
       IN  /\ image_tags' = res.image_tags
           /\ analyzer' = [analyzer EXCEPT
                  !.pc = IF analyzer.pos = Len(analyzer.batch) THEN "idle" ELSE "loop",
                  !.pos = analyzer.pos + 1,
                  !.image_data = image_data,
                  !.processed = analyzer.processed + (IF res.counted THEN 1 ELSE 0),
                  !.step = [id |-> image_id,
                            download |-> IF failing < max_retries THEN "ok" ELSE "failed",
                            result |-> res.result]]
    /\ UNCHANGED <<syncVars, images>>

\* analyze_untagged.main up to the loop (lines 47-60).
StartUntagged ==
    /\ pc = "idle"
    /\ analyzer.pc = "idle"
    /\ LET batch == IF count_untagged_images(image_tags) = 0 THEN <<>>
                    ELSE get_untagged_images(image_tags, untagged_limit)
       IN  analyzer' = [IdleAnalyzer EXCEPT !.pc = IF batch = <<>> THEN "idle" ELSE "loop",
                                           !.job = "untagged", !.batch = batch, !.pos = 1]
    /\ UNCHANGED <<syncVars, images, image_tags>>

\* One iteration of the loop of analyze_untagged.main (lines 61-89): a
\* download that raises is caught by the except clause of the iteration.
TagUntagged(dlfail, answer, dbfail) ==
    /\ pc = "idle"
    /\ analyzer.pc = "loop"
    /\ analyzer.job = "untagged"
    /\ LET image_id == analyzer.batch[analyzer.pos]
           res == IF dlfail
                  THEN [image_tags |-> image_tags, counted |-> FALSE, result |-> "error"]
                  ELSE AnalyzeAndTag(image_tags, image_id, Some(images[image_id]),
                                     answer, dbfail)
       IN  /\ image_tags' = res.image_tags
           /\ analyzer' = [analyzer EXCEPT
                  !.pc = IF analyzer.pos = Len(analyzer.batch) THEN "idle" ELSE "loop",
                  !.pos = analyzer.pos + 1,
                  !.image_data = IF dlfail THEN analyzer.image_data
                                 ELSE Some(images[image_id]),
                  !.processed = analyzer.processed + (IF res.counted THEN 1 ELSE 0),
                  !.step = [id |-> image_id,
                            download |-> IF dlfail THEN "failed" ELSE "ok",
                            result |-> res.result]]
    /\ UNCHANGED <<syncVars, images>>

\* The catalog holds the given images, none of them tagged.
InitTagging(tables) ==
    /\ InitSync({s \in Sites : s.ids = "same"})
    /\ images \in tables
    /\ image_tags = [i \in 1..Len(images) |-> {}]
    /\ analyzer = IdleAnalyzer

Answers == {"json", "text", "error"}

\* Runs of reveal_analyze.py, on the untagged images or on named images.
NextAnalyze ==
    \/ \E specific \in BOOLEAN, batch \in SpecificBatches \cup
              {get_untagged_images(image_tags, untagged_limit)} :
          StartAnalyze(specific, batch)
    \/ \E failing \in 0..max_retries, answer \in Answers, dbfail \in BOOLEAN :
          AnalyzeRecord(failing, answer, dbfail)

SpecAnalyze ==
    InitTagging(UNION {[1..n -> TagKinds] : n \in 1..MaxImages}) /\ [][NextAnalyze]_vars

\* The step analysed a record whose download failed on every attempt.
DownloadExhausted(a) == a.step.download = "failed"

(***************************************************************************)
(* C35.  In reveal_analyze.main, a record whose download failed on all     *)
(* max_retries attempts is not analysed and its tags stay as they were.    *)
(***************************************************************************)
C35_FailedDownloadNotTagged ==
    [][ analyzer' # analyzer /\ analyzer'.job = "analyze" /\ DownloadExhausted(analyzer')
          => /\ image_tags' = image_tags
             /\ analyzer'.step.result \notin {"tagged", "no_tags", "not_json",
                                              "update_failed"} ]_vars

(***************************************************************************)
(* Repeated runs of analyze_untagged.py over a fixed table of images: the  *)
(* older images show a deer, the newer ones no animal.  Every download and *)
(* every analysis succeeds, and a run that has ended is followed by the    *)
(* next one.                                                               *)
(***************************************************************************)
LiveTables ==
    {[i \in 1..MaxLiveImages |-> IF i <= k THEN "deer" ELSE "none"] : k \in 0..MaxLiveImages}

UntaggedStep == StartUntagged \/ TagUntagged(FALSE, "json", FALSE)

NextUntagged ==
    \/ StartUntagged
    \/ TagUntagged(FALSE, "json", FALSE)

SpecUntagged == InitTagging(LiveTables) /\ [][NextUntagged]_vars /\ WF_vars(UntaggedStep)

\* Image i is in the batch of a run of analyze_untagged.
Selected(i) ==
    /\ analyzer.job = "untagged"
    /\ \E k \in 1..Len(analyzer.batch) : analyzer.batch[k] = i

(***************************************************************************)
(* C36.  Under repeated runs of analyze_untagged every image that has no   *)
(* tags is eventually in the batch of a run.                               *)
(***************************************************************************)
C36_EventuallySelected ==
    \A i \in 1..MaxLiveImages : (image_tags[i] = {}) ~> Selected(i)

====
